---- MODULE Spec2Model ----
(***************************************************************************)
(* A model of SuiKit (src/sui-kit/lib/sui-kit.ts): one kit object, its     *)
(* account manager (the session's currentPath and the seed), and one       *)
(* invocation of a kit method at a time, followed from the call through    *)
(* its suspension on a collaborator to the settling of its promise.        *)
(* kitParams keeps the arguments the kit was constructed with.             *)
(*                                                                         *)
(* The classes SuiAccountManager, SuiRpcProvider, SuiPackagePublisher and  *)
(* the function composeTransferSuiTxn are imported by sui-kit.ts; their    *)
(* definitions here (AM_*, Derive, composeTransferSuiTxn, Responses)       *)
(* follow the written specification of those components.                   *)
(***************************************************************************)
EXTENDS Integers, Sequences, FiniteSets, TLC

VARIABLES kitParams, accountManager, call, lastSwitch

vars == <<kitParams, accountManager, call, lastSwitch>>

(* ------------------------------ bounds -------------------------------- *)

\* Valid account and address indices range over 0..MaxIndex.
MaxIndex == 1

(* ------------------------------ values -------------------------------- *)

\* A JavaScript number as two limbs, hi * 2^16 + lo, so that values beyond
\* 32 bits can be written: -1 is (hi -1, lo 65535), 2^32 is (hi 65536, lo 0).
Limb == 2 ^ 16

Num(k) == [hi |-> 0, lo |-> k]

MinusOne == [hi |-> -1, lo |-> Limb - 1]

TwoPow32 == [hi |-> Limb, lo |-> 0]

IsUint32(n) == n.hi >= 0 /\ n.hi < Limb /\ n.lo >= 0 /\ n.lo < Limb

DerivePathParams(a, e, i) == [accountIndex |-> a, isExternal |-> e, addressIndex |-> i]

DefaultPath == DerivePathParams(Num(0), TRUE, Num(0))

ValidPaths ==
    { DerivePathParams(Num(a), e, Num(i)) : a \in 0..MaxIndex, e \in BOOLEAN, i \in 0..MaxIndex }

InvalidPaths ==
    { DerivePathParams(MinusOne, TRUE, Num(0)),
      DerivePathParams(Num(0), TRUE, MinusOne),
      DerivePathParams(TwoPow32, FALSE, Num(0)),
      DerivePathParams(Num(1), TRUE, TwoPow32) }

PathInputs == ValidPaths \cup InvalidPaths

\* An optional argument: <<>> when omitted, <<v>> when supplied.
Omitted == << >>

Given(v) == <<v>>

OptionalPaths == {Omitted} \cup { Given(p) : p \in ValidPaths }

\* The constructor's parameters: each secret is "" when not supplied.
ToolKitParams ==
    { [mnemonics |-> m, secretKey |-> k] : m \in {"", "m1"}, k \in {"", "k1"} }

GeneratedMnemonics == {"g1"}

\* transferSui's (to, amount): a good transfer, a zero amount, a bad address.
TransferInputs == { <<"0xb0b", 10>>, <<"0xb0b", 0>>, <<"not-an-address", 10>> }

PublishOptions == {Omitted, Given("skipFetchLatestGitDeps")}

CoinTypes == {Omitted}

(* ------------------- SeedStore / DerivationEngine --------------------- *)

\* SeedStore construction: the mnemonic takes priority over the secret key;
\* with neither, a fresh mnemonic is generated.
SeedStores(params) ==
    IF params.mnemonics # ""
    THEN { [kind |-> "mnemonic", secret |-> params.mnemonics] }
    ELSE IF params.secretKey # ""
         THEN { [kind |-> "secretKey", secret |-> params.secretKey] }
         ELSE { [kind |-> "mnemonic", secret |-> g] : g \in GeneratedMnemonics }

\* derive(seed, path): purpose'/coin'/account'/change/index for a mnemonic
\* store, the single fixed keypair for a secret-key store.
Derive(seed, path) ==
    IF seed.kind = "mnemonic"
    THEN [kind |-> "mnemonic", secret |-> seed.secret,
          account |-> path.accountIndex,
          change |-> IF path.isExternal THEN 0 ELSE 1,
          index |-> path.addressIndex]
    ELSE [kind |-> "secretKey", secret |-> seed.secret,
          account |-> Num(0), change |-> 0, index |-> Num(0)]

PublicKey(keyPair) ==
    [pubOf |-> keyPair.secret, kind |-> keyPair.kind, account |-> keyPair.account,
     change |-> keyPair.change, index |-> keyPair.index]

\* The chain's address-from-public-key scheme.
ToSuiAddress(publicKey) == [address |-> publicKey]

(* --------------------------- AccountSession --------------------------- *)

\* Every account-manager operation maps the manager's state to its state
\* afterwards, the value returned and the error raised ("" for none).
AM_new(params, seed) == [seed |-> seed, currentPath |-> DefaultPath]

AM_resolve(am, derivePathParams) ==
    IF derivePathParams = Omitted THEN am.currentPath ELSE derivePathParams[1]

AM_getKeyPair(am, derivePathParams) ==
    [am |-> am, ret |-> Derive(am.seed, AM_resolve(am, derivePathParams)), err |-> ""]

AM_getAddress(am, derivePathParams) ==
    [am |-> am,
     ret |-> ToSuiAddress(PublicKey(Derive(am.seed, AM_resolve(am, derivePathParams)))),
     err |-> ""]

AM_currentAddress(am) ==
    [am |-> am, ret |-> ToSuiAddress(PublicKey(Derive(am.seed, am.currentPath))), err |-> ""]

AM_switchAccount(am, derivePathParams) ==
    IF IsUint32(derivePathParams.accountIndex) /\ IsUint32(derivePathParams.addressIndex)
    THEN [am |-> [am EXCEPT !.currentPath = derivePathParams], ret |-> "", err |-> ""]
    ELSE [am |-> am, ret |-> "", err |-> "InvalidPathError"]

(* ------------------- collaborators, as SuiKit sees them --------------- *)

\* RawSigner: a keypair bound to the provider.
RawSigner(keyPair, provider) == [keyPair |-> keyPair, provider |-> provider]

\* What the signer's signature over a transaction is: the transaction and
\* the public key it verifies under.
SignedBytes(signer, tx) == [tx |-> tx, signedBy |-> PublicKey(signer.keyPair)]

NoTx == [kind |-> "none", to |-> "", amount |-> 0]

RawTx == [kind |-> "raw", to |-> "", amount |-> 0]

\* TransactionBuilder: a minimal single-recipient transfer.
composeTransferSuiTxn(to, amount) == [kind |-> "transferSui", to |-> to, amount |-> amount]

Request(target, method, args) == [target |-> target, method |-> method, args |-> args]

Returned(v) == [kind |-> "return", value |-> v]

Thrown(e) == [kind |-> "throw", value |-> e]

\* What a collaborator may answer to a request: its result, or a failure.
Responses(request) ==
    CASE request.method = "requestFaucet" ->
            {Returned("true"), Returned("false"), Thrown("NetworkError")}
      [] request.method = "getBalance" ->
            {Returned("Balance"), Thrown("NetworkError")}
      [] request.method = "executeTransactionBlock" ->
            {Returned("ExecutionResult"), Thrown("NetworkError"), Thrown("ExecutionError")}
      [] request.method = "publishPackage" ->
            {Returned("PublishResult"), Thrown("NetworkError")}

(* ------------------------------ SuiKit -------------------------------- *)

\* One invocation of a kit method: its arguments, what it has resolved so
\* far, the requests it has issued, the collaborator's answer and what its
\* promise settled to.  effPath records the path in effect at the call;
\* switchedBeforeSigning, whether currentPath had moved away from it when
\* the signer signed.
NoCall ==
    [op |-> "none", pathArg |-> Omitted, effPath |-> DefaultPath,
     to |-> "", amount |-> 0, options |-> Omitted, coinType |-> Omitted,
     packagePath |-> "", tx |-> NoTx,
     addr |-> << >>, signer |-> << >>, signed |-> << >>,
     switchedBeforeSigning |-> FALSE,
     requests |-> << >>, response |-> << >>, outcome |-> << >>, pc |-> "idle"]

Invocation(op, am, derivePathParams) ==
    [NoCall EXCEPT !.op = op, !.pathArg = derivePathParams,
                   !.effPath = IF derivePathParams = Omitted
                               THEN am.currentPath ELSE derivePathParams[1],
                   !.pc = "running"]

Settle(c, result) == [c EXCEPT !.outcome = <<result>>, !.pc = "done"]

\* The constructor as it would be if a supplied secret key came first.
SuiKit_secretKeyFirst(params) ==
    { AM_new(params, seed) :
        seed \in SeedStores([params EXCEPT !.mnemonics = IF params.secretKey # ""
                                                         THEN "" ELSE @]) }

\* SuiKit.constructor
SuiKit(params) == { AM_new(params, seed) : seed \in SeedStores(params) }

\* getSigner as it would be if an explicit path were made the current one.
getSigner_switching(am, derivePathParams) ==
    LET sw == IF derivePathParams = Omitted THEN am
              ELSE AM_switchAccount(am, derivePathParams[1]).am
        r == AM_getKeyPair(sw, Omitted)
    IN  [am |-> r.am, ret |-> RawSigner(r.ret, "rpcProvider.provider"), err |-> r.err]

\* getSigner as it would be if the path were not handed on.
getSigner_currentOnly(am, derivePathParams) ==
    LET r == AM_getKeyPair(am, Omitted)
    IN  [am |-> r.am, ret |-> RawSigner(r.ret, "rpcProvider.provider"), err |-> r.err]

\* SuiKit.getSigner
getSigner(am, derivePathParams) ==
    LET r == AM_getKeyPair(am, derivePathParams)
    IN  [am |-> r.am, ret |-> RawSigner(r.ret, "rpcProvider.provider"), err |-> r.err]

\* switchAccount as it would be if the kit stored the path itself.
switchAccount_unchecked(am, derivePathParams) ==
    [am |-> [am EXCEPT !.currentPath = derivePathParams], ret |-> "", err |-> ""]

\* switchAccount as it would be if the call were not handed on.
switchAccount_noop(am, derivePathParams) == [am |-> am, ret |-> "", err |-> ""]

\* SuiKit.switchAccount
switchAccount(am, derivePathParams) == AM_switchAccount(am, derivePathParams)

\* getAddress as it would be if an omitted path meant the default path.
getAddress_defaulting(am, derivePathParams) ==
    AM_getAddress(am, IF derivePathParams = Omitted THEN Given(DefaultPath)
                      ELSE derivePathParams)

\* getAddress as it would be if the path were not handed on.
getAddress_ignoringPath(am, derivePathParams) == AM_getAddress(am, Omitted)

\* SuiKit.getAddress
getAddress(am, derivePathParams) == AM_getAddress(am, derivePathParams)

\* currentAddress as it would be if the address were kept from construction.
currentAddress_stale(am) ==
    [am |-> am, ret |-> ToSuiAddress(PublicKey(Derive(am.seed, DefaultPath))), err |-> ""]

\* SuiKit.currentAddress
currentAddress(am) == AM_currentAddress(am)

\* SuiKit.requestFaucet, up to the call of the collaborator.
requestFaucet(am, c) ==
    LET r == AM_getAddress(am, c.pathArg)
    IN  [am |-> r.am,
         call |-> [c EXCEPT !.addr = <<r.ret>>,
                            !.requests = <<Request("rpcProvider", "requestFaucet", <<r.ret>>)>>,
                            !.pc = "sent"]]

\* SuiKit.requestFaucet: its promise follows the collaborator's.
requestFaucet_return(c, response) == Settle(c, response)

\* SuiKit.getBalance, up to the call of the collaborator.
getBalance(am, c) ==
    LET r == AM_getAddress(am, c.pathArg)
    IN  [am |-> r.am,
         call |-> [c EXCEPT !.addr = <<r.ret>>,
                            !.requests = <<Request("rpcProvider", "getBalance",
                                                   <<r.ret, c.coinType>>)>>,
                            !.pc = "sent"]]

getBalance_return(c, response) == Settle(c, response)

\* SuiKit.signTxn, up to the call of the signer.
signTxn(am, c) ==
    LET r == getSigner(am, c.pathArg)
    IN  [am |-> r.am, call |-> [c EXCEPT !.signer = <<r.ret>>, !.pc = "signing"]]

\* The signing step of signTxn as it would be if the signer were asked to
\* sign and execute.
signTxn_sign_sending(am, c) ==
    LET signed == SignedBytes(c.signer[1], c.tx)
    IN  [c EXCEPT !.signed = <<signed>>,
                  !.requests = Append(@, Request("rpcProvider", "executeTransactionBlock",
                                                <<signed>>)),
                  !.pc = "sent"]

\* signer.signTransactionBlock: the signer created at the call signs.
signTxn_sign(am, c) ==
    Settle([c EXCEPT !.signed = <<SignedBytes(c.signer[1], c.tx)>>], Returned("SignedBytes"))

\* SuiKit.signAndSendTxn, up to the call of the signer.
signAndSendTxn(am, c) ==
    LET r == getSigner(am, c.pathArg)
    IN  [am |-> r.am, call |-> [c EXCEPT !.signer = <<r.ret>>, !.pc = "signing"]]

\* The signing step as it would be if the signer were resolved only when
\* the transaction is signed.
signAndSendTxn_sign_lazy(am, c) ==
    LET signed == SignedBytes(getSigner(am, c.pathArg).ret, c.tx)
    IN  [c EXCEPT !.signed = <<signed>>,
                  !.requests = Append(@, Request("rpcProvider", "executeTransactionBlock",
                                                <<signed>>)),
                  !.pc = "sent"]

\* signer.signAndExecuteTransactionBlock: the signer created at the call
\* signs, then hands the signed transaction to the provider.
signAndSendTxn_sign(am, c) ==
    LET signed == SignedBytes(c.signer[1], c.tx)
    IN  [c EXCEPT !.signed = <<signed>>,
                  !.requests = Append(@, Request("rpcProvider", "executeTransactionBlock",
                                                <<signed>>)),
                  !.pc = "sent"]

\* The return as it would be with one retry of a failed submission.
signAndSendTxn_retry(c, response) ==
    IF response.kind = "throw" /\ Len(c.requests) < 2
    THEN [c EXCEPT !.requests = Append(@, @[Len(@)])]
    ELSE Settle(c, response)

\* The return as it would be with the collaborator's failure caught.
signAndSendTxn_swallow(c, response) ==
    IF response.kind = "throw" THEN Settle(c, Returned("undefined")) ELSE Settle(c, response)

\* SuiKit.signAndSendTxn: its promise follows the signer's.
signAndSendTxn_return(c, response) == Settle(c, response)

\* SuiKit.publishPackage, up to the call of the collaborator, which gets
\* two arguments: its third parameter is left undefined.
publishPackage(am, c) ==
    LET r == getSigner(am, c.pathArg)
    IN  [am |-> r.am,
         call |-> [c EXCEPT !.signer = <<r.ret>>,
                            !.requests = <<Request("packagePublisher", "publishPackage",
                                                   <<c.packagePath, r.ret, Omitted>>)>>,
                            !.pc = "sent"]]

publishPackage_return(c, response) == Settle(c, response)

\* SuiKit.transferSui
transferSui(am, c) ==
    LET tx == composeTransferSuiTxn(c.to, c.amount)
    IN  signAndSendTxn(am, [c EXCEPT !.tx = tx])

(* ------------------------------ actions ------------------------------- *)

Init ==
    /\ kitParams \in ToolKitParams
    /\ accountManager \in SuiKit(kitParams)
    /\ call = NoCall
    /\ lastSwitch = [err |-> "", applied |-> << >>]

\* The kit is followed through one invocation at a time.
Free == call.pc = "idle"

GetSigner(derivePathParams) ==
    /\ Free
    /\ LET r == getSigner(accountManager, derivePathParams)
           c == Invocation("getSigner", accountManager, derivePathParams)
       IN  /\ accountManager' = r.am
           /\ call' = Settle([c EXCEPT !.signer = <<r.ret>>], Returned("RawSigner"))
    /\ UNCHANGED <<kitParams, lastSwitch>>

GetAddress(derivePathParams) ==
    /\ Free
    /\ LET r == getAddress(accountManager, derivePathParams)
           c == Invocation("getAddress", accountManager, derivePathParams)
       IN  /\ accountManager' = r.am
           /\ call' = Settle([c EXCEPT !.addr = <<r.ret>>], Returned("Address"))
    /\ UNCHANGED <<kitParams, lastSwitch>>

CurrentAddress ==
    /\ Free
    /\ LET r == currentAddress(accountManager)
           c == Invocation("currentAddress", accountManager, Omitted)
       IN  /\ accountManager' = r.am
           /\ call' = Settle([c EXCEPT !.addr = <<r.ret>>], Returned("Address"))
    /\ UNCHANGED <<kitParams, lastSwitch>>

\* switchAccount is synchronous; it may run while an invocation is
\* suspended.  lastSwitch records the error of the last attempt ("" for
\* none) and the argument of the last attempt that raised none.
SwitchAccount(derivePathParams) ==
    /\ LET r == switchAccount(accountManager, derivePathParams)
       IN  /\ accountManager' = r.am
           /\ lastSwitch' = [err |-> r.err,
                             applied |-> IF r.err = "" THEN <<derivePathParams>>
                                         ELSE lastSwitch.applied]
    /\ UNCHANGED <<kitParams, call>>

RequestFaucet(derivePathParams) ==
    /\ Free
    /\ LET r == requestFaucet(accountManager,
                              Invocation("requestFaucet", accountManager, derivePathParams))
       IN  accountManager' = r.am /\ call' = r.call
    /\ UNCHANGED <<kitParams, lastSwitch>>

GetBalance(coinType, derivePathParams) ==
    /\ Free
    /\ LET c == Invocation("getBalance", accountManager, derivePathParams)
           r == getBalance(accountManager, [c EXCEPT !.coinType = coinType])
       IN  accountManager' = r.am /\ call' = r.call
    /\ UNCHANGED <<kitParams, lastSwitch>>

SignTxn(derivePathParams) ==
    /\ Free
    /\ LET c == Invocation("signTxn", accountManager, derivePathParams)
           r == signTxn(accountManager, [c EXCEPT !.tx = RawTx])
       IN  accountManager' = r.am /\ call' = r.call
    /\ UNCHANGED <<kitParams, lastSwitch>>

SignAndSendTxn(derivePathParams) ==
    /\ Free
    /\ LET c == Invocation("signAndSendTxn", accountManager, derivePathParams)
           r == signAndSendTxn(accountManager, [c EXCEPT !.tx = RawTx])
       IN  accountManager' = r.am /\ call' = r.call
    /\ UNCHANGED <<kitParams, lastSwitch>>

PublishPackage(options, derivePathParams) ==
    /\ Free
    /\ LET c == Invocation("publishPackage", accountManager, derivePathParams)
           r == publishPackage(accountManager,
                               [c EXCEPT !.packagePath = "./move/pkg", !.options = options])
       IN  accountManager' = r.am /\ call' = r.call
    /\ UNCHANGED <<kitParams, lastSwitch>>

TransferSui(to, amount, derivePathParams) ==
    /\ Free
    /\ LET c == Invocation("transferSui", accountManager, derivePathParams)
           r == transferSui(accountManager, [c EXCEPT !.to = to, !.amount = amount])
       IN  accountManager' = r.am /\ call' = r.call
    /\ UNCHANGED <<kitParams, lastSwitch>>

\* The signer of a suspended invocation does its work.
SignerSigns ==
    /\ call.pc = "signing"
    /\ LET c == [call EXCEPT !.switchedBeforeSigning =
                                 (accountManager.currentPath # call.effPath)]
       IN  call' = IF call.op = "signTxn"
                   THEN signTxn_sign(accountManager, c)
                   ELSE signAndSendTxn_sign(accountManager, c)
    /\ UNCHANGED <<kitParams, accountManager, lastSwitch>>

\* The collaborator answers the request the invocation is suspended on.
CollaboratorResponds ==
    /\ call.pc = "sent"
    /\ \E response \in Responses(call.requests[Len(call.requests)]) :
          LET c == [call EXCEPT !.response = <<response>>]
          IN  call' = CASE call.op = "requestFaucet" -> requestFaucet_return(c, response)
                        [] call.op = "getBalance" -> getBalance_return(c, response)
                        [] call.op = "publishPackage" -> publishPackage_return(c, response)
                        [] OTHER -> signAndSendTxn_return(c, response)
    /\ UNCHANGED <<kitParams, accountManager, lastSwitch>>

\* The caller takes the settled result of its invocation.
CallerReceives ==
    /\ call.pc = "done"
    /\ call' = NoCall
    /\ UNCHANGED <<kitParams, accountManager, lastSwitch>>

Next ==
    \/ \E p \in OptionalPaths : GetSigner(p)
    \/ \E p \in OptionalPaths : GetAddress(p)
    \/ CurrentAddress
    \/ \E p \in PathInputs : SwitchAccount(p)
    \/ \E p \in OptionalPaths : RequestFaucet(p)
    \/ \E ct \in CoinTypes, p \in OptionalPaths : GetBalance(ct, p)
    \/ \E p \in OptionalPaths : SignTxn(p)
    \/ \E p \in OptionalPaths : SignAndSendTxn(p)
    \/ \E o \in PublishOptions, p \in OptionalPaths : PublishPackage(o, p)
    \/ \E t \in TransferInputs, p \in OptionalPaths : TransferSui(t[1], t[2], p)
    \/ SignerSigns
    \/ CollaboratorResponds
    \/ CallerReceives

Spec == Init /\ [][Next]_vars

(* ------------------------------ claims -------------------------------- *)

Settled == call.pc = "done"

KeyPairAt(path) == Derive(accountManager.seed, path)

AddressAt(path) == ToSuiAddress(PublicKey(KeyPairAt(path)))

\* The destinations of the model that match the address format.
WellFormedAddresses == {"0xb0b"}

\* C1: requestFaucet resolves to false whenever the collaborator's
\* requestFaucet throws or reports failure, to true only when it succeeds,
\* and never raises.
C1_FaucetBestEffort ==
    (call.op = "requestFaucet" /\ Settled) =>
        call.outcome = IF call.response = <<Returned("true")>>
                       THEN <<Returned("true")>>
                       ELSE <<Returned("false")>>

\* C2: transferSui with a destination that does not match the address
\* format, or an amount that is not positive, fails with InvalidAddressError
\* or InvalidAmountError before anything else happens: no signer is
\* created, nothing is signed and no request reaches the collaborator.
C2_TransferFailsFast ==
    (call.op = "transferSui" /\ (call.to \notin WellFormedAddresses \/ call.amount <= 0)) =>
        /\ Settled
        /\ call.outcome = IF call.to \notin WellFormedAddresses
                          THEN <<Thrown("InvalidAddressError")>>
                          ELSE <<Thrown("InvalidAmountError")>>
        /\ call.signer = << >>
        /\ call.signed = << >>
        /\ call.requests = << >>

\* C3: the PackagePublisher's publishPackage receives the packagePath
\* publishPackage was called with, the signer of the effective path, and
\* the options the caller supplied.
C3_PublishPassesOptions ==
    (call.op = "publishPackage" /\ call.pc # "idle") =>
        /\ Len(call.requests) = 1
        /\ call.requests[1].method = "publishPackage"
        /\ call.requests[1].args =
              <<call.packagePath, RawSigner(KeyPairAt(call.effPath), "rpcProvider.provider"),
                call.options>>

\* C4: every step of an operation that takes an optional path leaves
\* currentPath, and so the value a following currentAddress read returns,
\* as it was; only switchAccount, which leaves the invocation untouched,
\* is exempt.
C4_PathOpsKeepCurrentPath ==
    [][ call' # call =>
          /\ accountManager'.currentPath = accountManager.currentPath
          /\ currentAddress(accountManager').ret = currentAddress(accountManager).ret ]_vars

\* A failed signAndSendTxn with an explicit path other than the current
\* one has run, no switchAccount was ever called, and currentPath is still
\* the default.
C4_Witness ==
    /\ call.op = "signAndSendTxn" /\ Settled
    /\ call.outcome = <<Thrown("NetworkError")>>
    /\ call.pathArg # Omitted
    /\ call.pathArg[1] # DefaultPath
    /\ lastSwitch = [err |-> "", applied |-> << >>]
    /\ accountManager.currentPath = DefaultPath

SameButPathArg(c1, c2) == [c1 EXCEPT !.pathArg = Omitted] = [c2 EXCEPT !.pathArg = Omitted]

SameStart(r1, r2) == r1.am = r2.am /\ SameButPathArg(r1.call, r2.call)

\* The kit with the session moved to path p.
SwitchedTo(p) == [accountManager EXCEPT !.currentPath = p]

\* C5: in every state in which an operation can be invoked, it does the
\* same with the path omitted as with the path given as the current
\* currentPath: the same address or signer, the same requests with the same
\* arguments, and the same signature and settlement in the steps that
\* follow, whatever currentPath has become by then.
C5_OmittedIsCurrent ==
    Free =>
    LET am == accountManager
        cur == Given(accountManager.currentPath)
        inv(op, pa) == Invocation(op, am, pa)
        tx(c) == [c EXCEPT !.tx = RawTx]
        SameReturn(ret(_, _), a, b) ==
            /\ SameStart(a, b)
            /\ \A resp \in Responses(a.call.requests[1]) :
                  SameButPathArg(ret(a.call, resp), ret(b.call, resp))
        SameSend(a, b) ==
            /\ SameStart(a, b)
            /\ \A p \in ValidPaths :
                  LET x == signAndSendTxn_sign(SwitchedTo(p), a.call)
                      y == signAndSendTxn_sign(SwitchedTo(p), b.call)
                  IN  /\ SameButPathArg(x, y)
                      /\ \A resp \in Responses(x.requests[1]) :
                            SameButPathArg(signAndSendTxn_return(x, resp),
                                           signAndSendTxn_return(y, resp))
    IN  /\ getSigner(am, Omitted) = getSigner(am, cur)
        /\ getAddress(am, Omitted) = getAddress(am, cur)
        /\ SameReturn(requestFaucet_return,
                      requestFaucet(am, inv("requestFaucet", Omitted)),
                      requestFaucet(am, inv("requestFaucet", cur)))
        /\ \A ct \in CoinTypes :
              SameReturn(getBalance_return,
                         getBalance(am, [inv("getBalance", Omitted) EXCEPT !.coinType = ct]),
                         getBalance(am, [inv("getBalance", cur) EXCEPT !.coinType = ct]))
        /\ \A o \in PublishOptions :
              SameReturn(publishPackage_return,
                         publishPackage(am, [inv("publishPackage", Omitted)
                                                EXCEPT !.options = o]),
                         publishPackage(am, [inv("publishPackage", cur)
                                                EXCEPT !.options = o]))
        /\ LET a == signTxn(am, tx(inv("signTxn", Omitted)))
               b == signTxn(am, tx(inv("signTxn", cur)))
           IN  /\ SameStart(a, b)
               /\ \A p \in ValidPaths :
                     SameButPathArg(signTxn_sign(SwitchedTo(p), a.call),
                                    signTxn_sign(SwitchedTo(p), b.call))
        /\ SameSend(signAndSendTxn(am, tx(inv("signAndSendTxn", Omitted))),
                    signAndSendTxn(am, tx(inv("signAndSendTxn", cur))))
        /\ \A t \in TransferInputs :
              SameSend(transferSui(am, [inv("transferSui", Omitted)
                                           EXCEPT !.to = t[1], !.amount = t[2]]),
                       transferSui(am, [inv("transferSui", cur)
                                           EXCEPT !.to = t[1], !.amount = t[2]]))

\* getAddress with the path omitted has returned under a current path
\* other than the default, and returned that path's address, not the
\* default's.
C5_Witness ==
    /\ call.op = "getAddress" /\ Settled
    /\ call.pathArg = Omitted
    /\ accountManager.seed.kind = "mnemonic"
    /\ call.effPath = accountManager.currentPath
    /\ call.effPath # DefaultPath
    /\ call.addr = <<AddressAt(accountManager.currentPath)>>
    /\ call.addr # <<AddressAt(DefaultPath)>>

\* C6: after a successful switchAccount(P), until the next one,
\* currentAddress() = getAddress(P) = getAddress(); and every currentAddress
\* read returns the address derived from the currentPath of that moment.
C6_SwitchCorrectness ==
    /\ currentAddress(accountManager).ret = AddressAt(accountManager.currentPath)
    /\ lastSwitch.applied # << >> =>
          /\ currentAddress(accountManager).ret
                = getAddress(accountManager, lastSwitch.applied).ret
          /\ currentAddress(accountManager).ret = getAddress(accountManager, Omitted).ret
    /\ (call.op = "currentAddress" /\ Settled) => call.addr = <<AddressAt(call.effPath)>>

\* currentAddress was read after a successful switchAccount to a path other
\* than the default, and returned that path's address.
C6_Witness ==
    /\ lastSwitch.applied # << >>
    /\ lastSwitch.applied[1] # DefaultPath
    /\ accountManager.seed.kind = "mnemonic"
    /\ call.op = "currentAddress" /\ Settled
    /\ call.effPath = lastSwitch.applied[1]
    /\ call.addr = <<AddressAt(lastSwitch.applied[1])>>

\* C7: in every session the kit reaches (taken between invocations, where
\* every value of the session occurs), switchAccount with an accountIndex
\* or addressIndex that is negative or not an unsigned 32-bit integer
\* fails with InvalidPathError and leaves the session as it was, so that
\* getAddress() still returns the address of before; with a valid path it
\* raises nothing and makes that path the currentPath, whole.
C7_SwitchAccountAtomic ==
    Free => \A p \in PathInputs :
        LET r == switchAccount(accountManager, p)
        IN  IF IsUint32(p.accountIndex) /\ IsUint32(p.addressIndex)
            THEN /\ r.err = ""
                 /\ r.am = [accountManager EXCEPT !.currentPath = p]
            ELSE /\ r.err = "InvalidPathError"
                 /\ r.am.currentPath = accountManager.currentPath
                 /\ getAddress(r.am, Omitted).ret = getAddress(accountManager, Omitted).ret

\* A switchAccount has failed after an earlier one had moved the session
\* away from the default path, and the session is still where that earlier
\* one put it.
C7_Witness ==
    /\ lastSwitch.err = "InvalidPathError"
    /\ lastSwitch.applied # << >>
    /\ lastSwitch.applied[1] # DefaultPath
    /\ accountManager.currentPath = lastSwitch.applied[1]

\* C8: whatever an invocation resolves, signs or sends belongs to the path
\* that was in effect when it was invoked, also when switchAccount ran
\* while it was suspended.
C8_SnapshotConsistency ==
    call.pc # "idle" =>
        /\ call.addr # << >> => call.addr = <<AddressAt(call.effPath)>>
        /\ call.signer # << >> => call.signer[1].keyPair = KeyPairAt(call.effPath)
        /\ call.signed # << >> =>
              call.signed[1].signedBy = PublicKey(KeyPairAt(call.effPath))
        /\ \A i \in 1..Len(call.requests) :
              LET r == call.requests[i]
              IN  CASE r.method \in {"requestFaucet", "getBalance"} ->
                          r.args[1] = AddressAt(call.effPath)
                    [] r.method = "executeTransactionBlock" ->
                          r.args[1].signedBy = PublicKey(KeyPairAt(call.effPath))
                    [] r.method = "publishPackage" ->
                          r.args[2].keyPair = KeyPairAt(call.effPath)

\* A transferSui with the path omitted was signed and executed although
\* switchAccount had moved currentPath between its invocation and its
\* signing.
C8_Witness ==
    /\ call.op = "transferSui" /\ Settled
    /\ call.pathArg = Omitted
    /\ call.switchedBeforeSigning
    /\ accountManager.seed.kind = "mnemonic"
    /\ call.outcome = <<Returned("ExecutionResult")>>
    /\ call.requests[1].args[1].signedBy = PublicKey(KeyPairAt(call.effPath))

\* C9: an invocation issues at most one request to its collaborator, also
\* when that request fails.
C9_AtMostOneRequest ==
    /\ Len(call.requests) <= 1
    /\ (Settled /\ call.response # << >>) => Len(call.requests) = 1

\* A transferSui whose submission failed has settled with one request made.
C9_Witness ==
    /\ call.op = "transferSui" /\ Settled
    /\ call.response = <<Thrown("NetworkError")>>
    /\ Len(call.requests) = 1

\* C10: signAndSendTxn settles as the collaborator answered, result or
\* error, unchanged; and no operation other than requestFaucet turns a
\* collaborator's failure into a normal return value.
C10_CollaboratorAnswerUnchanged ==
    (Settled /\ call.response # << >> /\ call.op # "requestFaucet") =>
        call.outcome = call.response

\* A signAndSendTxn has been rejected with the collaborator's ExecutionError.
C10_Witness ==
    /\ call.op = "signAndSendTxn" /\ Settled
    /\ call.response = <<Thrown("ExecutionError")>>
    /\ call.outcome = <<Thrown("ExecutionError")>>

\* The kit constructed from p, with its session at the path this kit's
\* session is at.
KitOf(p) ==
    [(CHOOSE am \in SuiKit(p) : TRUE) EXCEPT !.currentPath = accountManager.currentPath]

MnemonicOnly == [kitParams EXCEPT !.secretKey = ""]

SecretKeyOnly == [kitParams EXCEPT !.mnemonics = ""]

\* C11: a kit constructed with mnemonics and secretKey gives, for every
\* path, omitted or explicit, the address and the signing keypair of the
\* kit constructed with that mnemonic alone, in what it would return now
\* and in what its invocation has resolved; whatever the secretKey, the
\* kit is the same.
C11_MnemonicPriority ==
    (kitParams.mnemonics # "" /\ kitParams.secretKey # "") =>
        /\ Free => \A pa \in OptionalPaths :
              /\ getAddress(accountManager, pa).ret = getAddress(KitOf(MnemonicOnly), pa).ret
              /\ getSigner(accountManager, pa).ret = getSigner(KitOf(MnemonicOnly), pa).ret
        /\ \A k \in {"k1", "k2"} :
              SuiKit([kitParams EXCEPT !.secretKey = k]) = SuiKit(MnemonicOnly)
        /\ call.addr # << >> =>
              call.addr = <<getAddress(KitOf(MnemonicOnly), Given(call.effPath)).ret>>
        /\ call.signer # << >> =>
              call.signer = <<getSigner(KitOf(MnemonicOnly), Given(call.effPath)).ret>>

\* A kit constructed with both has returned, for an explicit path other
\* than the default, the address of the mnemonic-only kit, which is not the
\* address of the kit constructed with the secret key alone.
C11_Witness ==
    /\ kitParams.mnemonics # "" /\ kitParams.secretKey # ""
    /\ call.op = "getAddress" /\ Settled
    /\ call.pathArg # Omitted
    /\ call.pathArg[1] # DefaultPath
    /\ call.addr = <<getAddress(KitOf(MnemonicOnly), call.pathArg).ret>>
    /\ call.addr # <<getAddress(KitOf(SecretKeyOnly), call.pathArg).ret>>

\* C12: with the path omitted getSigner returns the signer of the current
\* path.  In a kit without a mnemonic every path, explicit or omitted and
\* wherever the session is, resolves to one keypair and one address.  In a
\* kit with a mnemonic an explicit path resolves to the keypair derived from
\* the mnemonic at that path, and different paths to different keypairs.
C12_GetSignerResolution ==
    /\ getSigner(accountManager, Omitted).ret.keyPair = KeyPairAt(accountManager.currentPath)
    /\ accountManager.seed.kind = "secretKey" =>
          /\ Free => \A pa \in OptionalPaths, p \in ValidPaths :
                /\ getSigner(SwitchedTo(p), pa).ret = getSigner(accountManager, Omitted).ret
                /\ getAddress(SwitchedTo(p), pa).ret = currentAddress(accountManager).ret
          /\ call.signer # << >> => call.signer = <<getSigner(accountManager, Omitted).ret>>
          /\ call.addr # << >> => call.addr = <<currentAddress(accountManager).ret>>
    /\ accountManager.seed.kind = "mnemonic" =>
          /\ Free => \A p \in ValidPaths :
                LET kp == getSigner(accountManager, Given(p)).ret.keyPair
                IN  /\ kp.secret = accountManager.seed.secret
                    /\ kp.account = p.accountIndex
                    /\ kp.change = (IF p.isExternal THEN 0 ELSE 1)
                    /\ kp.index = p.addressIndex
          /\ Free => \A p \in ValidPaths, q \in ValidPaths :
                p # q => getSigner(accountManager, Given(p)).ret
                            # getSigner(accountManager, Given(q)).ret
          /\ (call.signer # << >> /\ call.pathArg # Omitted) =>
                call.signer[1].keyPair = KeyPairAt(call.pathArg[1])

\* In a kit constructed from a secret key alone, getSigner with an explicit
\* path other than the default has returned the kit's one signer, while the
\* session was at yet another path.
C12_Witness ==
    /\ kitParams = [mnemonics |-> "", secretKey |-> "k1"]
    /\ call.op = "getSigner" /\ Settled
    /\ call.pathArg # Omitted
    /\ call.pathArg[1] # DefaultPath
    /\ accountManager.currentPath \notin {DefaultPath, call.pathArg[1]}
    /\ call.signer = <<getSigner(accountManager, Omitted).ret>>
    /\ call.signer = <<getSigner(accountManager, Given(DefaultPath)).ret>>

\* C13: the address and the keypair an invocation obtained for a path are
\* the ones a call for that same path returns afterwards, wherever
\* switchAccount has moved the session in between.
C13_Determinism ==
    call.pc # "idle" =>
        /\ call.addr # << >> =>
              \A p \in ValidPaths :
                 call.addr = <<getAddress(SwitchedTo(p), Given(call.effPath)).ret>>
        /\ call.signer # << >> =>
              \A p \in ValidPaths :
                 call.signer = <<getSigner(SwitchedTo(p), Given(call.effPath)).ret>>

\* getAddress() returned the address of the path the session was at; a
\* switchAccount then moved the session elsewhere, and getAddress for that
\* first path still gives the address returned before.
C13_Witness ==
    /\ call.op = "getAddress" /\ Settled
    /\ call.pathArg = Omitted
    /\ accountManager.seed.kind = "mnemonic"
    /\ lastSwitch.applied = <<accountManager.currentPath>>
    /\ accountManager.currentPath # call.effPath
    /\ call.addr = <<getAddress(accountManager, Given(call.effPath)).ret>>
    /\ call.addr # <<getAddress(accountManager, Omitted).ret>>

\* C14: currentPath is the argument of the most recent switchAccount that
\* raised no error, or the default {0, true, 0} when there has been none;
\* no other operation moves it.
C14_CurrentPathIsLastSwitch ==
    accountManager.currentPath =
        IF lastSwitch.applied = << >>
        THEN DerivePathParams(Num(0), TRUE, Num(0))
        ELSE lastSwitch.applied[1]

\* After a switchAccount to a path other than the default, a publishPackage
\* for another explicit path has settled and a later switchAccount has
\* failed; currentPath is the argument of the one that succeeded.
C14_Witness ==
    /\ lastSwitch.applied # << >>
    /\ lastSwitch.applied[1] # DefaultPath
    /\ lastSwitch.err = "InvalidPathError"
    /\ call.op = "publishPackage" /\ Settled
    /\ call.pathArg # Omitted
    /\ call.pathArg[1] # lastSwitch.applied[1]
    /\ accountManager.currentPath = lastSwitch.applied[1]

\* C15: signTxn issues no request and settles with the bytes signed by the
\* signer of the effective path.  executeTransactionBlock is requested only
\* by signAndSendTxn and transferSui, with the transaction signed by the
\* signer the invocation acquired when it was called, before anything was
\* sent.
C15_SignTxnOnlySigns ==
    /\ call.op = "signTxn" =>
          /\ call.requests = << >>
          /\ Settled =>
                /\ call.outcome = <<Returned("SignedBytes")>>
                /\ call.signed =
                      <<SignedBytes(RawSigner(KeyPairAt(call.effPath), "rpcProvider.provider"),
                                    call.tx)>>
    /\ call.pc = "signing" => (call.signer # << >> /\ call.requests = << >>)
    /\ \A i \in 1..Len(call.requests) :
          call.requests[i].method = "executeTransactionBlock" =>
             /\ call.op \in {"signAndSendTxn", "transferSui"}
             /\ call.signer # << >>
             /\ call.requests[i].args = <<SignedBytes(call.signer[1], call.tx)>>

\* A signTxn for an explicit path other than the default has settled with
\* signed bytes and has sent nothing.
C15_Witness ==
    /\ call.op = "signTxn" /\ Settled
    /\ call.pathArg # Omitted
    /\ call.pathArg[1] # DefaultPath
    /\ call.signed # << >>
    /\ call.signed[1].signedBy = PublicKey(KeyPairAt(call.pathArg[1]))
    /\ call.outcome = <<Returned("SignedBytes")>>
    /\ call.requests = << >>

====
